---- MODULE Spec2Model ----
(***************************************************************************)
(* State-machine model of harold's deploy plugin (deploy.py):              *)
(* DeployMonitor with its registry of OngoingDeploy objects, the reactor's *)
(* delayed calls that expire them, the IRC sink (send_message, set_topic)  *)
(* and the status command.                                                 *)
(*                                                                         *)
(* Time is a discrete clock `now`; datetime.datetime.now() and the reactor *)
(* clock both read it.  A delayed call runs once its fire time is reached  *)
(* and the clock does not advance past a due call.                         *)
(* Strings are kept as strings; formatted messages and topics are records  *)
(* that carry the format's kind and every substituted value.               *)
(* sent and topics hold the send_message and set_topic calls of the        *)
(* handler that ran last, ev which handler it was; announced, scriptPos    *)
(* and touched record the history of each live instance, tally the begins  *)
(* and removals of a run in which no id is begun twice.                    *)
(*                                                                         *)
(* Spec is the lifecycle of two ids, SpecProgress long runs of progress    *)
(* events on one id, SpecStatus the status command.                        *)
(***************************************************************************)
EXTENDS Integers, Sequences, FiniteSets, TLC

\* ---------------------------------------------------------------- bounds
MaxTime == 2
MaxTimers == 2
MaxProgressTime == 4
MaxDelays == 5
MaxLiveTime == 4
TicksPerMinute == 2

\* ------------------------------------------------------- configuration
\* config.deploy_ttl
deploy_ttl == 2
\* config.channel
channel == "#deploy"
\* irc.config.nick
nick == "harold"

\* ------------------------------------------------------------- inputs
Ids == {"d1", "d2"}
Whos == {"", "bob"}
Args == {"-a"}
LogPaths == {"log"}
HostCounts == {10}
Hosts == {"app-01"}
Indices == {5}
Channels == {channel, "#other"}
Senders == {<<"alice", "!", "alice@example.com">>}
Users == {"carol!carol@example.com"}
ExternalTexts == {"", "welcome", "<harold> spoofed"}
\* the texts of ExternalTexts that begin with "<harold>"
TaggedTexts == {"<harold> spoofed"}
Reasons == {"oops"}

\* Python's None for the string-valued and number-valued attributes and
\* for topic_to_restore
None == "<None>"
NoIndex == -1
NoTopic == [kind |-> "none"]

\* a topic whose text is the literal string s
Text(s) == [kind |-> "text", text |-> s]

VARIABLES deploys, timers, topic_to_restore, now, sent, topics, ev,
          announced, scriptPos, touched, tally

vars == <<deploys, timers, topic_to_restore, now, sent, topics, ev,
          announced, scriptPos, touched, tally>>

\* The progress indices of the worked example, in order.
Script == <<0, 2, 5, 8, 10>>

\* ------------------------------------------------------------ helpers
\* Python truthiness of a str-or-None value
Truthy(s) == s # None /\ s # ""

\* Python truthiness of topic_to_restore
TruthyTopic(t) == t # NoTopic /\ t # Text("")

\* d.when.strftime("%H:%M"): the timestamp truncated to the minute
Strftime(t) == t \div TicksPerMinute

\* the handles of the delayed calls that are still pending
Pending(tms) == {t.h : t \in tms}

\* DelayedCall.active()
Active(tms, h) == h \in Pending(tms)

\* a cancel that leaves the call pending
CancelNothing(tms, h) == tms

\* DelayedCall.cancel()
Cancel(tms, h) == {t \in tms : t.h # h}

\* reactor.callLater picks a fresh DelayedCall object
FreshHandle(tms, deps) ==
    CHOOSE h \in 1..MaxTimers :
        /\ h \notin Pending(tms)
        /\ \A i \in DOMAIN deps : deps[i].expirator # h
        /\ \A g \in 1..(h - 1) :
              g \in Pending(tms) \/ \E i \in DOMAIN deps : deps[i].expirator = g

\* del self.deploys[id]
Without(deps, id) == [i \in (DOMAIN deps) \ {id} |-> deps[i]]

\* self.deploys[id] = deploy
With(deps, id, d) == [i \in (DOMAIN deps) \cup {id} |-> IF i = id THEN d ELSE deps[i]]

\* the event record of the handler that ran last
Event(op, id, live, chan, raised) ==
    [op |-> op, id |-> id, live |-> live, channel |-> chan, raised |-> raised]

\* ------------------------------------------------------ _update_topic
\* the latest start instead of the earliest
MaxWhen(deps) ==
    CHOOSE w \in {deps[i].when : i \in DOMAIN deps} :
        \A i \in DOMAIN deps : deps[i].when <= w

\* min(d.when for d in self.deploys.itervalues())
MinWhen(deps) ==
    CHOOSE w \in {deps[i].when : i \in DOMAIN deps} :
        \A i \in DOMAIN deps : w <= deps[i].when

_update_topic(deps, ttr) ==
    LET deploy_count == Cardinality(DOMAIN deps) IN
    IF deploy_count = 0
    THEN IF TruthyTopic(ttr)
         THEN ttr
         ELSE Text("no active pushes (sorry, harold forgot the old topic)")
    ELSE IF deploy_count = 1
    THEN LET deploy == deps[CHOOSE i \in DOMAIN deps : TRUE] IN
         [kind |-> "single", nick |-> nick, who |-> deploy.who,
          when |-> Strftime(deploy.when), args |-> deploy.args]
    ELSE [kind |-> "multi", nick |-> nick, count |-> deploy_count,
          earliest |-> Strftime(MinWhen(deps))]

\* topic.startswith("<%s>" % self.irc.config.nick)
StartsWithNick(topic) ==
    \/ topic.kind \in {"single", "multi"}
    \/ topic.kind = "text" /\ topic.text \in TaggedTexts

\* ----------------------------------------------------- _remove_deploy
\* Returns the registry and delayed calls after the call and the
\* (who, duration) pair; (None, None) is who = None.
_remove_deploy(deps, tms, id, t) ==
    IF id \notin DOMAIN deps
    THEN [deploys |-> deps, timers |-> tms, who |-> None, duration |-> 0]
    ELSE [deploys |-> Without(deps, id),
          timers |-> IF Active(tms, deps[id].expirator)
                     THEN Cancel(tms, deps[id].expirator)
                     ELSE tms,
          who |-> deps[id].who,
          duration |-> t - deps[id].when]

\* history of the instances that are live after a handler ran
Live(hist, deps, fresh) == [i \in Ids |-> IF i \in DOMAIN deps THEN hist[i] ELSE fresh]

\* the tally of a run in which an id has been begun a second time
Reused == [begun |-> {}, begins |-> 0, removals |-> 0, reused |-> TRUE]

\* the tally after onPushBegan(id)
Began(t, id) ==
    IF t.reused \/ id \in t.begun THEN Reused
    ELSE [t EXCEPT !.begun = @ \cup {id}, !.begins = @ + 1]

\* the tally after an end or abort of a live id (took) or an expiry
Removed(t, took) ==
    IF t.reused \/ ~took THEN t ELSE [t EXCEPT !.removals = @ + 1]

\* ------------------------------------------------------------- Init
Init ==
    /\ deploys = [i \in {} |-> 0]
    /\ timers = {}
    /\ topic_to_restore = NoTopic
    /\ now = 0
    /\ sent = <<>>
    /\ topics = <<>>
    /\ ev = Event("init", "", FALSE, channel, FALSE)
    /\ announced = [i \in Ids |-> <<>>]
    /\ scriptPos = [i \in Ids |-> 0]
    /\ touched = [i \in Ids |-> 0]
    /\ tally = [begun |-> {}, begins |-> 0, removals |-> 0, reused |-> FALSE]

\* ------------------------------------------------------- onPushBegan
onPushBegan(id, who, args, log_path, count) ==
    /\ LET h == FreshHandle(timers, deploys)
           deploy == [id |-> id, when |-> now, who |-> who, args |-> args,
                      log_path |-> log_path, quadrant |-> 1, where |-> None,
                      completion |-> NoIndex, host_count |-> count,
                      expirator |-> h]
           deps == With(deploys, id, deploy)
       IN /\ timers' = timers \cup {[h |-> h, id |-> id, at |-> now + deploy_ttl]}
          /\ deploys' = deps
          /\ topics' = <<_update_topic(deps, topic_to_restore)>>
          /\ sent' = <<[kind |-> "started", who |-> who, id |-> id, args |-> args]>>
    /\ ev' = Event("begin", id, id \in DOMAIN deploys, channel, FALSE)
    /\ announced' = [announced EXCEPT ![id] = <<>>]
    /\ scriptPos' = [scriptPos EXCEPT ![id] = 0]
    /\ touched' = [touched EXCEPT ![id] = now]
    /\ tally' = Began(tally, id)
    /\ UNCHANGED <<topic_to_restore, now>>

\* ---------------------------------------------------- onPushProgress
\* a delay that loses the call
DelayDropping(tms, h, secondsLater) == {t \in tms : t.h # h}

\* a delay that moves every pending call
DelayAll(tms, h, secondsLater) ==
    {[t EXCEPT !.at = @ + secondsLater] : t \in tms}

\* DelayedCall.delay(secondsLater): the call's fire time moves
\* secondsLater further into the future
Delay(tms, h, secondsLater) ==
    {IF t.h = h THEN [t EXCEPT !.at = @ + secondsLater] ELSE t : t \in tms}

\* the fire time of the pending delayed call h
FireTime(tms, h) == (CHOOSE t \in tms : t.h = h).at

\* a threshold check that ignores the small-push test
AnnouncementsForAnyCount(host_count, quadrant, index) ==
    IF host_count > 0 /\ ~(4 * index < quadrant * host_count)
    THEN <<quadrant * 25>>
    ELSE <<>>

\* a threshold check against the quadrant already announced
AnnouncementsOffByOne(host_count, quadrant, index) ==
    IF host_count < 8 THEN <<>>
    ELSE IF 4 * index < (quadrant - 1) * host_count THEN <<>>
    ELSE <<quadrant * 25>>

\* a threshold check that catches up on every threshold reached
RECURSIVE AnnouncementsCatchUp(_, _, _)
AnnouncementsCatchUp(host_count, quadrant, index) ==
    IF host_count < 8 THEN <<>>
    ELSE IF 4 * index < quadrant * host_count THEN <<>>
    ELSE <<quadrant * 25>> \o AnnouncementsCatchUp(host_count, quadrant + 1, index)

\* a threshold check that announces the quarter the index has reached
AnnouncementsOfCurrent(host_count, quadrant, index) ==
    IF host_count < 8 THEN <<>>
    ELSE IF 4 * index < quadrant * host_count THEN <<>>
    ELSE <<((4 * index) \div host_count) * 25>>

\* lines 168-178: the percentages the call announces.  percent =
\* float(index) / host_count is compared with quadrant * .25 exactly:
\* 4 * index against quadrant * host_count (host_count >= 8 here).
Announcements(host_count, quadrant, index) ==
    IF host_count < 8 THEN <<>>
    ELSE IF 4 * index < quadrant * host_count THEN <<>>
    ELSE <<quadrant * 25>>

\* the messages of the announcements ps of who's push id
RECURSIVE ProgressMessages(_, _, _)
ProgressMessages(who, id, ps) ==
    IF ps = <<>> THEN <<>>
    ELSE <<[kind |-> "progress", who |-> who, id |-> id, percent |-> Head(ps)]>>
            \o ProgressMessages(who, id, Tail(ps))

\* the next position in Script after index is received at position pos
Advance(pos, index) ==
    IF pos >= 0 /\ pos < Len(Script) /\ Script[pos + 1] = index
    THEN pos + 1
    ELSE -1

onPushProgress(id, host, index) ==
    IF id \notin DOMAIN deploys
    THEN /\ sent' = <<>>
         /\ topics' = <<>>
         /\ ev' = Event("progress", id, FALSE, channel, FALSE)
         /\ UNCHANGED <<deploys, timers, topic_to_restore, now, announced, scriptPos,
                      touched, tally>>
    ELSE LET deploy == deploys[id]
             ps == Announcements(deploy.host_count, deploy.quadrant, index)
         IN \* delay() raises on a call that is no longer pending
            /\ Active(timers, deploy.expirator)
            /\ timers' = Delay(timers, deploy.expirator, deploy_ttl)
            /\ deploys' = [deploys EXCEPT ![id] =
                              [deploy EXCEPT !.completion = index,
                                             !.where = host,
                                             !.quadrant = @ + Len(ps)]]
            /\ sent' = ProgressMessages(deploy.who, id, ps)
            /\ topics' = <<>>
            /\ ev' = Event("progress", id, TRUE, channel, FALSE)
            /\ announced' = [announced EXCEPT ![id] = @ \o ps]
            /\ scriptPos' = [scriptPos EXCEPT ![id] = Advance(@, index)]
            /\ touched' = [touched EXCEPT ![id] = now]
            /\ UNCHANGED <<topic_to_restore, now, tally>>

\* --------------------------------------- onPushEnded / onPushAborted
\* onPushEnded without the early return on an unknown id
onPushEndedUnguarded(id) ==
    LET r == _remove_deploy(deploys, timers, id, now) IN
    /\ deploys' = r.deploys
    /\ timers' = r.timers
    /\ sent' = <<[kind |-> "complete", who |-> r.who, id |-> id,
                  took |-> r.duration]>>
    /\ topics' = <<_update_topic(r.deploys, topic_to_restore)>>
    /\ ev' = Event("end", id, id \in DOMAIN deploys, channel, FALSE)
    /\ announced' = Live(announced, r.deploys, <<>>)
    /\ scriptPos' = Live(scriptPos, r.deploys, 0)
    /\ touched' = Live(touched, r.deploys, 0)
    /\ tally' = Removed(tally, id \in DOMAIN deploys)
    /\ UNCHANGED <<topic_to_restore, now>>

onPushEnded(id) ==
    LET r == _remove_deploy(deploys, timers, id, now) IN
    /\ deploys' = r.deploys
    /\ timers' = r.timers
    /\ IF ~Truthy(r.who)
       THEN sent' = <<>> /\ topics' = <<>>
       ELSE /\ sent' = <<[kind |-> "complete", who |-> r.who, id |-> id,
                          took |-> r.duration]>>
            /\ topics' = <<_update_topic(r.deploys, topic_to_restore)>>
    /\ ev' = Event("end", id, id \in DOMAIN deploys, channel, FALSE)
    /\ announced' = Live(announced, r.deploys, <<>>)
    /\ scriptPos' = Live(scriptPos, r.deploys, 0)
    /\ touched' = Live(touched, r.deploys, 0)
    /\ tally' = Removed(tally, id \in DOMAIN deploys)
    /\ UNCHANGED <<topic_to_restore, now>>

\* onPushAborted without the early return on an unknown id
onPushAbortedUnguarded(id, reason) ==
    LET r == _remove_deploy(deploys, timers, id, now) IN
    /\ deploys' = r.deploys
    /\ timers' = r.timers
    /\ sent' = <<[kind |-> "aborted", who |-> r.who, id |-> id,
                  reason |-> reason]>>
    /\ topics' = <<_update_topic(r.deploys, topic_to_restore)>>
    /\ ev' = Event("abort", id, id \in DOMAIN deploys, channel, FALSE)
    /\ announced' = Live(announced, r.deploys, <<>>)
    /\ scriptPos' = Live(scriptPos, r.deploys, 0)
    /\ touched' = Live(touched, r.deploys, 0)
    /\ tally' = Removed(tally, id \in DOMAIN deploys)
    /\ UNCHANGED <<topic_to_restore, now>>

onPushAborted(id, reason) ==
    LET r == _remove_deploy(deploys, timers, id, now) IN
    /\ deploys' = r.deploys
    /\ timers' = r.timers
    /\ IF ~Truthy(r.who)
       THEN sent' = <<>> /\ topics' = <<>>
       ELSE /\ sent' = <<[kind |-> "aborted", who |-> r.who, id |-> id,
                          reason |-> reason]>>
            /\ topics' = <<_update_topic(r.deploys, topic_to_restore)>>
    /\ ev' = Event("abort", id, id \in DOMAIN deploys, channel, FALSE)
    /\ announced' = Live(announced, r.deploys, <<>>)
    /\ scriptPos' = Live(scriptPos, r.deploys, 0)
    /\ touched' = Live(touched, r.deploys, 0)
    /\ tally' = Removed(tally, id \in DOMAIN deploys)
    /\ UNCHANGED <<topic_to_restore, now>>

\* ------------------------------------------------------------ Expire
\* an expiry that recomputes the topic as end and abort do
ExpireUpdatingTopic(t) ==
    /\ t \in timers
    /\ t.at <= now
    /\ LET r == _remove_deploy(deploys, timers \ {t}, t.id, now) IN
       /\ deploys' = r.deploys
       /\ timers' = r.timers
       /\ announced' = Live(announced, r.deploys, <<>>)
       /\ scriptPos' = Live(scriptPos, r.deploys, 0)
       /\ touched' = Live(touched, r.deploys, 0)
       /\ topics' = <<_update_topic(r.deploys, topic_to_restore)>>
    /\ sent' = <<>>
    /\ ev' = Event("expire", t.id, t.id \in DOMAIN deploys, channel, FALSE)
    /\ tally' = Removed(tally, TRUE)
    /\ UNCHANGED <<topic_to_restore, now>>

\* the reactor runs the due delayed call t: self._remove_deploy(t.id)
Expire(t) ==
    /\ t \in timers
    /\ t.at <= now
    /\ LET r == _remove_deploy(deploys, timers \ {t}, t.id, now) IN
       /\ deploys' = r.deploys
       /\ timers' = r.timers
       /\ announced' = Live(announced, r.deploys, <<>>)
       /\ scriptPos' = Live(scriptPos, r.deploys, 0)
       /\ touched' = Live(touched, r.deploys, 0)
    /\ sent' = <<>>
    /\ topics' = <<>>
    /\ ev' = Event("expire", t.id, t.id \in DOMAIN deploys, channel, FALSE)
    /\ tally' = Removed(tally, TRUE)
    /\ UNCHANGED <<topic_to_restore, now>>

\* ---------------------------------------------------- _topic_changed
_topic_changed(user, chan, topic) ==
    /\ topic_to_restore' =
          IF chan # channel THEN topic_to_restore
          ELSE IF StartsWithNick(topic) THEN topic_to_restore
          ELSE topic
    /\ sent' = <<>>
    /\ topics' = <<>>
    /\ ev' = Event("topic", "", FALSE, chan, FALSE)
    /\ UNCHANGED <<deploys, timers, now, announced, scriptPos, touched, tally>>

\* ------------------------------------------------------------ status
\* order lists every id of deps once
IsOrder(deps, order) ==
    /\ Len(order) = Cardinality(DOMAIN deps)
    /\ \A i \in DOMAIN deps : \E k \in 1..Len(order) : order[k] = i

\* sorted(self.deploys.values(), key=lambda d: d.when): the ids in
\* ascending order of when; the order of equal keys follows the dict
IsSorted(deps, order) ==
    /\ Len(order) = Cardinality(DOMAIN deps)
    /\ \A i \in DOMAIN deps : \E k \in 1..Len(order) : order[k] = i
    /\ \A k \in 1..Len(order), l \in 1..Len(order) :
          k < l => deps[order[k]].when <= deps[order[l]].when

\* the deploys in the order of the dict, unsorted
Unsorted(deps) ==
    {order \in [1..Cardinality(DOMAIN deps) -> DOMAIN deps] : IsOrder(deps, order)}

Sorted(deps) ==
    {order \in [1..Cardinality(DOMAIN deps) -> DOMAIN deps] : IsSorted(deps, order)}

\* formatting the line of d raises ZeroDivisionError
Raises(d) == Truthy(d.where) /\ d.host_count = 0

\* sender.partition('!')[0]
Partition(sender) == sender[1]

StatusLine(sender_nick, d) ==
    [kind |-> "status", to |-> sender_nick, who |-> d.who, id |-> d.id,
     where |-> IF Truthy(d.where) THEN d.where ELSE None,
     percent |-> IF Truthy(d.where) THEN (d.completion * 100) \div d.host_count
                 ELSE NoIndex,
     when |-> Strftime(d.when), args |-> d.args, log_path |-> d.log_path]

\* the lines replied for the deploys of order up to the first that raises
RECURSIVE Replies(_, _, _)
Replies(sender_nick, deps, order) ==
    IF order = <<>> THEN <<>>
    ELSE IF Raises(deps[Head(order)]) THEN <<>>
    ELSE <<StatusLine(sender_nick, deps[Head(order)])>>
            \o Replies(sender_nick, deps, Tail(order))

status(sender, chan) ==
    /\ IF chan # channel
       THEN /\ sent' = <<>>
            /\ ev' = Event("status", "", FALSE, chan, FALSE)
       ELSE \E order \in Sorted(deploys) :
            LET sender_nick == Partition(sender)
                none == IF DOMAIN deploys = {}
                        THEN <<[kind |-> "nopushes", to |-> sender_nick]>>
                        ELSE <<>>
            IN /\ sent' = none \o Replies(sender_nick, deploys, order)
               /\ ev' = Event("status", "", FALSE, chan,
                              \E i \in DOMAIN deploys : Raises(deploys[i]))
    /\ topics' = <<>>
    /\ UNCHANGED <<deploys, timers, topic_to_restore, now, announced, scriptPos, touched, tally>>

\* ------------------------------------------------------------- Tick
\* the clock advances; a due delayed call runs before it advances further
Tick ==
    /\ \A t \in timers : t.at > now
    /\ now' = now + 1
    /\ sent' = <<>>
    /\ topics' = <<>>
    /\ ev' = Event("tick", "", FALSE, channel, FALSE)
    /\ UNCHANGED <<deploys, timers, topic_to_restore, announced, scriptPos,
                   touched, tally>>

\* ---------------------------------------------------- specifications
\* the delayed call of a live id can be delayed without passing maxAt
CanDelay(id, maxAt) ==
    id \in DOMAIN deploys =>
        FireTime(timers, deploys[id].expirator) + deploy_ttl <= maxAt

\* The lifecycle of two ids: begin, progress, end, abort, expiry and the
\* observed topic.
Next ==
    \/ \E id \in Ids, who \in Whos, args \in Args, log_path \in LogPaths,
          count \in HostCounts :
          Cardinality(timers) < MaxTimers /\ onPushBegan(id, who, args, log_path, count)
    \/ \E id \in Ids, host \in Hosts, index \in Indices :
          CanDelay(id, MaxTime + deploy_ttl) /\ onPushProgress(id, host, index)
    \/ \E id \in Ids : onPushEnded(id)
    \/ \E id \in Ids, reason \in Reasons : onPushAborted(id, reason)
    \/ \E t \in timers : Expire(t)
    \/ \E user \in Users, chan \in Channels, text \in ExternalTexts :
          _topic_changed(user, chan, Text(text))
    \/ now < MaxTime /\ Tick

Spec == Init /\ [][Next]_vars

\* Long runs of progress events on one id, begun when it is not live.
ProgressIds == {"d1"}
ProgressWhos == {"bob"}
ProgressHostCounts == {0, 7, 10}
ProgressHosts == {"app-01"}
ProgressIndices == {0, 2, 5, 8, 10, 13}

NextProgress ==
    \/ \E id \in ProgressIds, who \in ProgressWhos, args \in Args,
          log_path \in LogPaths, count \in ProgressHostCounts :
          id \notin DOMAIN deploys /\ onPushBegan(id, who, args, log_path, count)
    \/ \E id \in ProgressIds, host \in ProgressHosts, index \in ProgressIndices :
          /\ CanDelay(id, MaxProgressTime + deploy_ttl * (MaxDelays + 1))
          /\ onPushProgress(id, host, index)
    \/ \E id \in ProgressIds : onPushEnded(id)
    \/ \E t \in timers : Expire(t)
    \/ now < MaxProgressTime /\ Tick

SpecProgress == Init /\ [][NextProgress]_vars

\* The status command over two ids, each begun when it is not live.
StatusWhos == {"bob"}
StatusHostCounts == {0, 10}
StatusHosts == {"", "app-01"}
StatusIndices == {5}

NextStatus ==
    \/ \E id \in Ids, who \in StatusWhos, args \in Args, log_path \in LogPaths,
          count \in StatusHostCounts :
          id \notin DOMAIN deploys /\ onPushBegan(id, who, args, log_path, count)
    \/ \E id \in Ids, host \in StatusHosts, index \in StatusIndices :
          CanDelay(id, MaxTime + deploy_ttl) /\ onPushProgress(id, host, index)
    \/ \E id \in Ids : onPushEnded(id)
    \/ \E t \in timers : Expire(t)
    \/ \E sender \in Senders, chan \in Channels : status(sender, chan)
    \/ now < MaxTime /\ Tick

SpecStatus == Init /\ [][NextStatus]_vars

\* The observed topic: the IRC server reports every topic the monitor sets
\* back through topicUpdated before the next event.
EchoWhos == {"bob"}

NextEcho ==
    \/ \E id \in Ids, who \in EchoWhos, args \in Args, log_path \in LogPaths,
          count \in HostCounts :
          /\ topics = <<>>
          /\ id \notin DOMAIN deploys
          /\ onPushBegan(id, who, args, log_path, count)
    \/ \E id \in Ids : topics = <<>> /\ onPushEnded(id)
    \/ \E id \in Ids, reason \in Reasons : topics = <<>> /\ onPushAborted(id, reason)
    \/ \E t \in timers : topics = <<>> /\ Expire(t)
    \/ \E user \in Users, chan \in Channels, text \in ExternalTexts :
          topics = <<>> /\ _topic_changed(user, chan, Text(text))
    \/ \E user \in Users : topics # <<>> /\ _topic_changed(user, channel, topics[1])
    \/ topics = <<>> /\ now < MaxTime /\ Tick

SpecEcho == Init /\ [][NextEcho]_vars

\* The reactor keeps running: the clock advances and due delayed calls
\* run.  Every delayed call is scheduled within the clock's range.
LiveWhos == {"bob"}

LiveTick == now < MaxLiveTime /\ Tick

LiveExpire == \E t \in timers : Expire(t)

NextLive ==
    \/ \E id \in Ids, who \in LiveWhos, args \in Args, log_path \in LogPaths,
          count \in HostCounts :
          /\ Cardinality(timers) < MaxTimers
          /\ now + deploy_ttl <= MaxLiveTime
          /\ onPushBegan(id, who, args, log_path, count)
    \/ \E id \in Ids, host \in Hosts, index \in Indices :
          CanDelay(id, MaxLiveTime) /\ onPushProgress(id, host, index)
    \/ \E id \in Ids : onPushEnded(id)
    \/ LiveExpire
    \/ LiveTick

SpecLive ==
    Init /\ [][NextLive]_vars /\ WF_vars(LiveTick) /\ WF_vars(LiveExpire)

\* ------------------------------------------------------------ claims
\* the number of pending delayed calls that will remove id
PendingFor(id) == Cardinality({t \in timers : t.id = id})

\* C1: every end or abort of a live id, whatever the deploy's who, removes
\* the deploy, sends exactly one message (complete / aborted) and sets the
\* topic exactly once, to the topic of the registry after the removal.
C1_EndAbortNotifies ==
    (ev.op \in {"end", "abort"} /\ ev.live) =>
        /\ ev.id \notin DOMAIN deploys
        /\ Len(sent) = 1
        /\ sent[1].kind = (IF ev.op = "end" THEN "complete" ELSE "aborted")
        /\ topics = <<_update_topic(deploys, topic_to_restore)>>

\* C2: progress, end and abort for an id that is not in the registry leave
\* the registry, the deploys, the delayed calls and topic_to_restore as
\* they are and write nothing to the sink.
C2_UnknownIdChangesNothing ==
    [][\A id \in Ids :
          (/\ id \notin DOMAIN deploys
           /\ \/ \E host \in Hosts, index \in Indices : onPushProgress(id, host, index)
              \/ onPushEnded(id)
              \/ \E reason \in Reasons : onPushAborted(id, reason))
          => /\ UNCHANGED <<deploys, timers, topic_to_restore>>
             /\ sent' = <<>>
             /\ topics' = <<>>]_vars

\* an end or abort for an id that is not live has run while another
\* deploy is live
C2_Witness ==
    /\ ev.op \in {"end", "abort"}
    /\ ~ev.live
    /\ DOMAIN deploys # {}
    /\ timers # {}

\* C3: after a progress event on a live deploy at time t, the deploy's
\* delayed call fires at exactly t + deploy_ttl.
C3_ProgressResetsTimer ==
    (ev.op = "progress" /\ ev.live) =>
        FireTime(timers, deploys[ev.id].expirator) = now + deploy_ttl

\* C4: the number of pending delayed calls that remove an id is 1 when the
\* id is in the registry and 0 when it is not.
C4_OneTimerPerLiveId ==
    \A id \in Ids : PendingFor(id) = IF id \in DOMAIN deploys THEN 1 ELSE 0

\* C5: when a delayed call fires for a live id, the deploy is removed,
\* nothing is sent, no topic is set and topic_to_restore is unchanged.
C5_ExpiryIsSilent ==
    [][\A t \in timers :
          (Expire(t) /\ t.id \in DOMAIN deploys)
          => /\ t.id \notin DOMAIN deploys'
             /\ sent' = <<>>
             /\ topics' = <<>>
             /\ topic_to_restore' = topic_to_restore]_vars

\* a delayed call has fired and removed a live deploy, leaving another one
C5_Witness ==
    /\ ev.op = "expire"
    /\ ev.live
    /\ ev.id \notin DOMAIN deploys
    /\ DOMAIN deploys # {}

\* C6 as claimed: hostCount 10 and the progress indices 0, 2, 5, 8, 10 give
\* the four announcements 25, 50, 75, 100 and leave quadrant at 5.
C6_FourAnnouncements ==
    \A id \in DOMAIN deploys :
        (deploys[id].host_count = 10 /\ scriptPos[id] = Len(Script)) =>
            /\ announced[id] = <<25, 50, 75, 100>>
            /\ deploys[id].quadrant = 5

\* C6 amended: hostCount 10 and the progress indices 0, 2, 5, 8, 10 give
\* exactly the three announcements 25, 50, 75, in that order, and leave
\* quadrant at 4.
C6_ThreeAnnouncements ==
    \A id \in DOMAIN deploys :
        (deploys[id].host_count = 10 /\ scriptPos[id] = Len(Script)) =>
            /\ announced[id] = <<25, 50, 75>>
            /\ deploys[id].quadrant = 4

\* a deploy of 10 hosts has received exactly the indices 0, 2, 5, 8, 10
C6_Witness ==
    \E id \in DOMAIN deploys :
        /\ deploys[id].host_count = 10
        /\ scriptPos[id] = Len(Script)
        /\ deploys[id].completion = 10

\* C7: a progress event on a live deploy of at least 8 hosts sends one
\* announcement, at quadrant * 25 percent, and adds one to quadrant when
\* index / host_count >= quadrant * 0.25 for the quadrant before the call;
\* otherwise it sends nothing and leaves quadrant as it is.
C7_SingleStep ==
    [][\A id \in ProgressIds, host \in ProgressHosts, index \in ProgressIndices :
          (/\ id \in DOMAIN deploys
           /\ deploys[id].host_count >= 8
           /\ onPushProgress(id, host, index))
          => LET q == deploys[id].quadrant IN
             IF index * 100 >= q * 25 * deploys[id].host_count
             THEN /\ Len(sent') = 1
                  /\ sent'[1].kind = "progress"
                  /\ sent'[1].percent = q * 25
                  /\ deploys'[id].quadrant = q + 1
             ELSE /\ sent' = <<>>
                  /\ deploys'[id].quadrant = q]_vars

\* a first announcement made by a progress event that is already past the
\* 50% threshold: only the 25% announcement was sent
C7_Witness ==
    /\ ev.op = "progress"
    /\ ev.live
    /\ deploys[ev.id].host_count = 10
    /\ deploys[ev.id].completion >= 8
    /\ deploys[ev.id].quadrant = 2
    /\ Len(sent) = 1
    /\ sent[1].percent = 25

\* C8: a deploy of fewer than 8 hosts never announces a threshold and its
\* quadrant stays 1, while each progress event sets where and completion
\* and delays the deploy's delayed call.
C8_SmallPushesAreQuiet ==
    /\ [](\A id \in DOMAIN deploys :
             deploys[id].host_count < 8 =>
                 announced[id] = <<>> /\ deploys[id].quadrant = 1)
    /\ [][\A id \in ProgressIds, host \in ProgressHosts, index \in ProgressIndices :
             (/\ id \in DOMAIN deploys
              /\ deploys[id].host_count < 8
              /\ onPushProgress(id, host, index))
             => /\ sent' = <<>>
                /\ deploys'[id].where = host
                /\ deploys'[id].completion = index
                /\ FireTime(timers', deploys'[id].expirator)
                      = FireTime(timers, deploys[id].expirator) + deploy_ttl]_vars

\* a deploy of 7 hosts has received a progress event past every threshold
C8_Witness ==
    /\ ev.op = "progress"
    /\ ev.live
    /\ deploys[ev.id].host_count = 7
    /\ deploys[ev.id].completion = 13
    /\ deploys[ev.id].where = "app-01"

\* C9: a status query on the configured channel never raises and sends one
\* line per active deploy, or one line when there is none; on another
\* channel it sends nothing.
C9_StatusNeverRaises ==
    ev.op = "status" =>
        IF ev.channel = channel
        THEN /\ ~ev.raised
             /\ Len(sent) = IF DOMAIN deploys = {} THEN 1
                            ELSE Cardinality(DOMAIN deploys)
        ELSE sent = <<>>

\* C10: a status query on the configured channel sends the line of every
\* active deploy, the line of d1 before the line of d2 whenever d1 was
\* started before d2.
C10_StatusInStartOrder ==
    (ev.op = "status" /\ ev.channel = channel) =>
        \A d1 \in DOMAIN deploys, d2 \in DOMAIN deploys :
            deploys[d1].when < deploys[d2].when =>
                \E k \in 1..Len(sent), l \in 1..Len(sent) :
                    k < l /\ sent[k].id = d1 /\ sent[l].id = d2

\* C11: the topic set by begin, end or abort is the topic of the registry
\* as the event leaves it: with no active deploy the remembered topic when
\* one is set (a remembered empty text is IRC's "no topic"), else the
\* fallback text; with one active deploy the summary of that deploy (who,
\* start time, args); with two or more the number of active deploys and
\* the earliest start among them.  begin always sets one topic.
C11_TopicFollowsRegistry ==
    (ev.op \in {"begin", "end", "abort"}) =>
        /\ Len(topics) <= 1
        /\ ev.op = "begin" => Len(topics) = 1
        /\ topics # <<>> =>
              LET n == Cardinality(DOMAIN deploys)
                  t == topics[1]
              IN /\ n = 0 =>
                       t = IF topic_to_restore \notin {NoTopic, Text("")}
                           THEN topic_to_restore
                           ELSE Text("no active pushes (sorry, harold forgot the old topic)")
                 /\ n = 1 =>
                       \E i \in DOMAIN deploys :
                           t = [kind |-> "single", nick |-> "harold",
                                who |-> deploys[i].who,
                                when |-> deploys[i].when \div TicksPerMinute,
                                args |-> deploys[i].args]
                 /\ n >= 2 =>
                       /\ t.kind = "multi"
                       /\ t.count = n
                       /\ \A i \in DOMAIN deploys :
                             t.earliest <= deploys[i].when \div TicksPerMinute
                       /\ \E i \in DOMAIN deploys :
                             t.earliest = deploys[i].when \div TicksPerMinute

\* a begin has set the topic of two deploys started in different minutes
C11_Witness ==
    /\ ev.op = "begin"
    /\ Len(topics) = 1
    /\ topics[1].kind = "multi"
    /\ \E i \in DOMAIN deploys, j \in DOMAIN deploys :
          Strftime(deploys[i].when) < Strftime(deploys[j].when)

\* C14: for every sequence of progress events, quadrant never exceeds 5
\* and at most four thresholds are announced for a deploy.
C14_QuadrantCapped ==
    \A id \in DOMAIN deploys :
        /\ deploys[id].quadrant <= 5
        /\ Len(announced[id]) <= 4

\* the percentages 25, 50, ... announced before quadrant q
RECURSIVE Thresholds(_)
Thresholds(q) == IF q <= 1 THEN <<>> ELSE Append(Thresholds(q - 1), (q - 1) * 25)

\* C15: while an instance lives its quadrant never decreases and the
\* thresholds announced for it are 25, 50, 75, ... in that order, each one
\* once and none skipped, whatever the progress indices.
C15_QuadrantOnlyAdvances ==
    /\ [](\A id \in DOMAIN deploys :
             /\ deploys[id].quadrant >= 1
             /\ announced[id] = Thresholds(deploys[id].quadrant))
    /\ [][\A id \in DOMAIN deploys :
             (id \in DOMAIN deploys' /\ deploys'[id].expirator = deploys[id].expirator)
             => /\ deploys'[id].quadrant >= deploys[id].quadrant
                /\ Len(announced'[id]) >= Len(announced[id])
                /\ SubSeq(announced'[id], 1, Len(announced[id])) = announced[id]]_vars

\* a deploy that has announced 25 and 50 receives an index below 25%
C15_Witness ==
    /\ ev.op = "progress"
    /\ ev.live
    /\ deploys[ev.id].host_count = 10
    /\ deploys[ev.id].quadrant = 3
    /\ deploys[ev.id].completion = 0
    /\ announced[ev.id] = <<25, 50>>

\* C16: a progress event on a live deploy changes only that deploy's
\* where, completion and quadrant and the fire time of its delayed call;
\* the ids of the registry, every other deploy, every other delayed call,
\* the deploy's other attributes and topic_to_restore are unchanged and no
\* topic is set.
C16_ProgressFrame ==
    [][\A id \in Ids, host \in Hosts, index \in Indices :
          (id \in DOMAIN deploys /\ onPushProgress(id, host, index))
          => /\ DOMAIN deploys' = DOMAIN deploys
             /\ \A i \in DOMAIN deploys : i # id => deploys'[i] = deploys[i]
             /\ deploys'[id] = [deploys[id] EXCEPT !.where = deploys'[id].where,
                                                   !.completion = deploys'[id].completion,
                                                   !.quadrant = deploys'[id].quadrant]
             /\ {t \in timers' : t.h # deploys[id].expirator}
                   = {t \in timers : t.h # deploys[id].expirator}
             /\ Pending(timers') = Pending(timers)
             /\ topic_to_restore' = topic_to_restore
             /\ topics' = <<>>]_vars

\* a progress event has run on one of two live deploys
C16_Witness ==
    /\ ev.op = "progress"
    /\ ev.live
    /\ Cardinality(DOMAIN deploys) = 2
    /\ Cardinality(timers) >= 2

\* C18: topic_to_restore never holds a topic the monitor set itself: the
\* summary of one deploy, the summary of several, or the fallback text.
C18_NeverRemembersOwnTopic ==
    /\ topic_to_restore.kind \notin {"single", "multi"}
    /\ topic_to_restore # Text("no active pushes (sorry, harold forgot the old topic)")

\* C12: while no id has been begun twice, the size of the registry is the
\* number of begins minus the number of removals (ends and aborts of a
\* live id, and expiries), and that number is never negative.
C12_SizeIsBeginsMinusRemovals ==
    ~tally.reused =>
        /\ tally.begins - tally.removals >= 0
        /\ Cardinality(DOMAIN deploys) = tally.begins - tally.removals

\* both ids have been begun once and removed, the last one by expiry
C12_Witness ==
    /\ ~tally.reused
    /\ tally.begins = 2
    /\ tally.removals = 2
    /\ ev.op = "expire"

\* C13: a delayed call that removes a deploy is the call of that very
\* instance, and fires no earlier than deploy_ttl after the instance's
\* creation or its most recent progress event.
C13_ExpiryOnlyAfterIdleTTL ==
    [][\A t \in timers :
          (Expire(t) /\ t.id \in DOMAIN deploys)
          => /\ t.h = deploys[t.id].expirator
             /\ now >= touched[t.id] + deploy_ttl]_vars

\* m is a complete or aborted message of id
IsTerminal(m, id) == m.kind \in {"complete", "aborted"} /\ m.id = id

\* C17: a complete or aborted message for an id is sent only by the step
\* that removes the live instance of that id, and only one; an end or
\* abort for an id that is no longer in the registry sends nothing and
\* sets no topic.
C17_OneTerminalMessage ==
    [][\A id \in Ids :
          /\ (\E k \in 1..Len(sent') : IsTerminal(sent'[k], id))
             => /\ id \in DOMAIN deploys
                /\ id \notin DOMAIN deploys'
                /\ Cardinality({k \in 1..Len(sent') : IsTerminal(sent'[k], id)}) = 1
          /\ (/\ id \notin DOMAIN deploys
              /\ \/ onPushEnded(id)
                 \/ \E reason \in Reasons : onPushAborted(id, reason))
             => sent' = <<>> /\ topics' = <<>>]_vars

\* an abort has run for an id whose instance was begun and removed before
C17_Witness ==
    /\ ev.op = "abort"
    /\ ~ev.live
    /\ ev.id \in tally.begun
    /\ tally.removals >= 1
    /\ sent = <<>>

\* C19: every live deploy has a pending delayed call that removes it, and
\* under a reactor that keeps running every deploy in the registry is
\* eventually removed, with or without an end or abort.
C19_EveryDeployIsRemoved ==
    /\ [](\A id \in DOMAIN deploys :
             \E t \in timers : t.h = deploys[id].expirator /\ t.id = id)
    /\ \A id \in Ids : (id \in DOMAIN deploys) ~> (id \notin DOMAIN deploys)

\* a delayed call scheduled by a late begin, or delayed by a progress
\* event, has fired and removed its live deploy
C19_Witness ==
    /\ ev.op = "expire"
    /\ ev.live
    /\ ev.id \notin DOMAIN deploys
    /\ now = 2 * deploy_ttl
====
